---- MODULE Spec2Model ----
(***************************************************************************)
(* A model of the lighar-rs software ray tracer: the f32 geometry of       *)
(* geom.rs (vectors, triangles, barycentric solve, ray_cast_tri, reflect,  *)
(* affine transforms), the trace loop and the parallel pixel driver of     *)
(* rt.rs, and the cube-map sampler of sampler.rs over the images of img.rs.*)
(*                                                                         *)
(* f32 values are modelled as exact extended rationals <<n, d>> in lowest  *)
(* terms with d >= 0: <<n, d>>, d > 0 is the rational n/d, <<1, 0>> is     *)
(* +infinity, <<-1, 0>> is -infinity and <<0, 0>> is NaN.  Rounding and    *)
(* the sign of zero are not modelled; division by zero, NaN propagation    *)
(* and the "every comparison with NaN is false" rule are.                  *)
(***************************************************************************)
EXTENDS Integers, Sequences, FiniteSets, TLC

VARIABLES
    \* ---- one call of ray_cast_tri (geom.rs) ----
    castRay,     \* the Ray handed to ray_cast_tri
    castPts,     \* the three Points the Triangle is built from
    castOut,     \* Pending, or the Option<Intersection<Barycentric>> returned
    \* ---- one call of RayTracer::trace (rt.rs) ----
    tracer,      \* which RayTracer implementation is bound to the engine
    scene,       \* the Scene: a sequence of Objects
    rayArg,      \* the ray argument
    payload,     \* the payload argument: counts the any_hit calls it went through
    pc,          \* "idle", "loop" (about to call intersect), "any_hit", "done"
    oi,          \* index of the object the outer loop is at
    ti,          \* index in obj.idxs the inner loop is at
    cur,         \* the intersection the current intersect call returned
    closest,     \* the local `closest`: None or Some((tri, mat, intersection))
    calls,       \* the callbacks invoked so far, in order
    ret,         \* the Color trace returned
    \* ---- one call of RayTracer::draw (rt.rs) ----
    fbw,         \* framebuf.width()
    fbh,         \* framebuf.height()
    dpc,         \* draw itself: "idle", "start", "running", "done"
    todo,        \* the pixels of the parallel iterators no worker has taken
    wpc,         \* per worker: "idle", "lock", "ray_gen", "in_store", "unlock"
    wpx,         \* per worker: the pixel <<x, y>> of the closure it runs
    wcolor,      \* per worker: the color its ray_gen call returned
    mutex,       \* owner of the Mutex around the frame buffer, 0 when free
    stored,      \* the store calls the frame buffer received, in order
    \* ---- a Transform under construction (geom.rs) ----
    xf,          \* the Transform built so far
    xfOps,       \* the builder calls made so far: "translate", "scale", ...
    xfUniform,   \* TRUE while every scale call had three equal factors
    xfProd,      \* None, or Some(xf * xf.inverse())
    \* ---- one ray_gen call of a recursive shading strategy ----
    shPc,        \* "idle", "ray_gen", "done"
    shPrimary,   \* primary rays ray_gen has still to trace
    shStack,     \* the trace calls in progress, outermost first: each with
                 \* the recursion counter of its payload, its phase and the
                 \* secondary rays its closest_hit has still to trace
    \* ---- one call of reflect (geom.rs) ----
    reflI,       \* the incidental vector `i`
    reflN,       \* the normal `n`
    reflOut,     \* Pending, or the Vector returned
    \* ---- one CubeSampler and the image set it is used with (sampler.rs) ----
    smpImgs,     \* the slice `imgs`: a sequence of Images
    smpDir,      \* the direction `v` handed to sample
    smpValid,    \* Pending, or Some(b) once validate returned the bool b
    smpOut,      \* Pending, or how the sample call ended: a Color or a panic
    \* ---- one product of two Transforms applied to an operand (geom.rs) ----
    cmpA,        \* the left Transform
    cmpB,        \* the right Transform
    cmpArg,      \* the operand: a Point or a Vector
    cmpOut       \* Pending, or the results of applying the product and of
                 \* applying the two factors one after the other

castVars == <<castRay, castPts, castOut>>

traceVars == <<tracer, scene, rayArg, payload, pc, oi, ti, cur, closest, calls, ret>>

drawVars == <<fbw, fbh, dpc, todo, wpc, wpx, wcolor, mutex, stored>>

xfVars == <<xf, xfOps, xfUniform, xfProd>>

shadeVars == <<shPc, shPrimary, shStack>>

reflVars == <<reflI, reflN, reflOut>>

smpVars == <<smpImgs, smpDir, smpValid, smpOut>>

cmpVars == <<cmpA, cmpB, cmpArg, cmpOut>>

vars == <<castVars, traceVars, drawVars, xfVars, shadeVars, reflVars, smpVars, cmpVars>>

(***************************************************************************)
(* f32 arithmetic                                                          *)
(***************************************************************************)
Sgn(n) == IF n > 0 THEN 1 ELSE IF n < 0 THEN -1 ELSE 0

Abs(n) == IF n < 0 THEN -n ELSE n

RECURSIVE GCD(_, _)
GCD(a, b) == IF b = 0 THEN a ELSE GCD(b, a % b)

\* n/d in lowest terms, denominator positive; x/0 is an infinity or NaN.
Norm(n, d) ==
    IF d = 0 THEN <<Sgn(n), 0>>
    ELSE LET s == Sgn(d)
             g == GCD(Abs(n), Abs(d))
         IN  <<(s * n) \div g, (s * d) \div g>>

I(n) == <<n, 1>>

NaN == <<0, 0>>

INFINITY == <<1, 0>>

NEG_INFINITY == <<-1, 0>>

IsNaN(a) == a = NaN

IsFinite(a) == a[2] > 0

fneg(a) == <<-a[1], a[2]>>

fabs(a) == <<Abs(a[1]), a[2]>>

fadd(a, b) ==
    IF IsNaN(a) \/ IsNaN(b) THEN NaN
    ELSE IF ~IsFinite(a) /\ ~IsFinite(b) THEN (IF a = b THEN a ELSE NaN)
    ELSE IF ~IsFinite(a) THEN a
    ELSE IF ~IsFinite(b) THEN b
    ELSE LET l == (a[2] \div GCD(a[2], b[2])) * b[2]
         IN  Norm(a[1] * (l \div a[2]) + b[1] * (l \div b[2]), l)

fsub(a, b) == fadd(a, fneg(b))

fmul(a, b) == Norm(a[1] * b[1], a[2] * b[2])

fdiv(a, b) ==
    LET n == a[1] * b[2]
        d == a[2] * b[1]
    IN  IF d = 0 THEN <<Sgn(n) * (IF b[1] < 0 THEN -1 ELSE 1), 0>>
        ELSE Norm(n, d)

\* a < b; false as soon as one side is NaN.
flt(a, b) ==
    /\ ~IsNaN(a)
    /\ ~IsNaN(b)
    /\ IF IsFinite(a) /\ IsFinite(b)
       THEN a[1] * b[2] < b[1] * a[2]
       ELSE \/ (a = NEG_INFINITY /\ b # NEG_INFINITY)
            \/ (b = INFINITY /\ a # INFINITY)

fgt(a, b) == flt(b, a)

\* a >= b; false as soon as one side is NaN.
fge(a, b) == ~IsNaN(a) /\ ~IsNaN(b) /\ ~flt(a, b)

fle(a, b) == fge(b, a)

\* The exact integer root; the inputs of the model are chosen so that every
\* length that is taken is rational (CHOOSE fails loudly otherwise).
ISqrt(n) == CHOOSE k \in 0..n : k * k = n

fsqrt(a) ==
    IF IsNaN(a) \/ a[1] < 0 THEN NaN
    ELSE IF ~IsFinite(a) THEN INFINITY
    ELSE <<ISqrt(a[1]), ISqrt(a[2])>>

IsSquare(n) == \E k \in 0..n : k * k = n

(***************************************************************************)
(* Point, Vector                                                           *)
(***************************************************************************)
Vec(x, y, z) == <<I(x), I(y), I(z)>>

vadd(a, b) == <<fadd(a[1], b[1]), fadd(a[2], b[2]), fadd(a[3], b[3])>>

vsub(a, b) == <<fsub(a[1], b[1]), fsub(a[2], b[2]), fsub(a[3], b[3])>>

vmul(a, k) == <<fmul(a[1], k), fmul(a[2], k), fmul(a[3], k)>>

vdiv(a, k) == <<fdiv(a[1], k), fdiv(a[2], k), fdiv(a[3], k)>>

vneg(a) == <<fneg(a[1]), fneg(a[2]), fneg(a[3])>>

affine_add(p, v) == vadd(p, v)

affine_sub(p, v) == vsub(p, v)

rel_from(p, q) == vsub(p, q)

to_vec(p) == p

dot(a, b) ==
    fadd(fadd(fmul(a[1], b[1]), fmul(a[2], b[2])), fmul(a[3], b[3]))

cross(a, b) ==
    <<fsub(fmul(a[2], b[3]), fmul(a[3], b[2])),
      fsub(fmul(a[3], b[1]), fmul(a[1], b[3])),
      fsub(fmul(a[1], b[2]), fmul(a[2], b[1]))>>

normalize(a) ==
    LET l == fsqrt(dot(a, a))
    IN  <<fdiv(a[1], l), fdiv(a[2], l), fdiv(a[3], l)>>

(***************************************************************************)
(* Triangle, Barycentric, ray_cast_tri                                     *)
(***************************************************************************)
None == [tag |-> "None"]

Some(x) == [tag |-> "Some", val |-> x]

Triangle_new(a, b, c) ==
    LET x == rel_from(b, a)
        y == rel_from(c, a)
    IN  [o |-> a, x |-> x, y |-> y, n |-> normalize(cross(y, x))]

Barycentric_new(p0, tri) ==
    LET x == tri.x
        y == tri.y
        p == vsub(to_vec(p0), to_vec(tri.o))
        d00 == dot(x, x)
        d01 == dot(x, y)
        d11 == dot(y, y)
        d20 == dot(p, x)
        d21 == dot(p, y)
        denom == fsub(fmul(d00, d11), fmul(d01, d01))
        u == fdiv(fsub(fmul(d11, d20), fmul(d01, d21)), denom)
        v == fdiv(fsub(fmul(d00, d21), fmul(d01, d20)), denom)
    IN  IF flt(u, I(0)) \/ flt(v, I(0)) \/ fgt(fadd(u, v), I(1))
        THEN None
        ELSE Some([u |-> u, v |-> v])

\* d of the specification: the displacement of the ray origin from the plane.
cast_r1(ray, tri) == dot(rel_from(ray.o, tri.o), tri.n)

\* r of the specification: the ray direction projected on the normal.
cast_r2(ray, tri) == dot(ray.v, tri.n)

\* A half-space test with > in the place of >=.
cast_rejects_strict(r1, r2) == fgt(fmul(r1, r2), I(0))

\* The half-space test that makes ray_cast_tri return early.
cast_rejects(r1, r2) == fge(fmul(r1, r2), I(0))

ray_cast_tri(ray, tri) ==
    LET r1 == cast_r1(ray, tri)
        r2 == cast_r2(ray, tri)
    IN  IF cast_rejects(r1, r2) THEN None
        ELSE LET pos  == affine_sub(ray.o, vdiv(vmul(ray.v, r1), r2))
                 bary == Barycentric_new(pos, tri)
             IN  IF bary.tag = "Some"
                 THEN Some([attr |-> bary.val,
                            kind |-> IF flt(r2, I(0)) THEN "Front" ELSE "Back",
                            t    |-> fabs(r1)])
                 ELSE None

(***************************************************************************)
(* Transform                                                               *)
(***************************************************************************)
eye ==
    [r1 |-> Vec(1, 0, 0), r2 |-> Vec(0, 1, 0), r3 |-> Vec(0, 0, 1),
     af |-> Vec(0, 0, 0)]

translate(self, af) == [self EXCEPT !.af = vadd(self.af, af)]

scale(self, sc) ==
    [self EXCEPT !.r1 = vmul(self.r1, sc[1]),
                 !.r2 = vmul(self.r2, sc[2]),
                 !.r3 = vmul(self.r3, sc[3])]

to_cols(self) ==
    << <<self.r1[1], self.r2[1], self.r3[1]>>,
       <<self.r1[2], self.r2[2], self.r3[2]>>,
       <<self.r1[3], self.r2[3], self.r3[3]>> >>

\* impl Mul<Point> for Transform
mul_point(self, rhs) ==
    <<fadd(dot(self.r1, to_vec(rhs)), self.af[1]),
      fadd(dot(self.r2, to_vec(rhs)), self.af[2]),
      fadd(dot(self.r3, to_vec(rhs)), self.af[3])>>

\* impl Mul<Vector> for Transform
mul_vector(self, rhs) == <<dot(self.r1, rhs), dot(self.r2, rhs), dot(self.r3, rhs)>>

\* A product that adds the two translations without applying the linear part
\* of the left factor to the translation of the right one.
mul_transform_adding_af(self, rhs) ==
    LET c == to_cols(rhs)
    IN  [r1 |-> <<dot(self.r1, c[1]), dot(self.r1, c[2]), dot(self.r1, c[3])>>,
         r2 |-> <<dot(self.r2, c[1]), dot(self.r2, c[2]), dot(self.r2, c[3])>>,
         r3 |-> <<dot(self.r3, c[1]), dot(self.r3, c[2]), dot(self.r3, c[3])>>,
         af |-> vadd(rhs.af, self.af)]

\* impl Mul<Transform> for Transform
mul_transform(self, rhs) ==
    LET c == to_cols(rhs)
    IN  [r1 |-> <<dot(self.r1, c[1]), dot(self.r1, c[2]), dot(self.r1, c[3])>>,
         r2 |-> <<dot(self.r2, c[1]), dot(self.r2, c[2]), dot(self.r2, c[3])>>,
         r3 |-> <<dot(self.r3, c[1]), dot(self.r3, c[2]), dot(self.r3, c[3])>>,
         af |-> <<fadd(dot(self.r1, rhs.af), self.af[1]),
                  fadd(dot(self.r2, rhs.af), self.af[2]),
                  fadd(dot(self.r3, rhs.af), self.af[3])>>]

\* f32::sin_cos on the angles whose sine and cosine are rational: a names
\* a * 90 degrees for a in 0..3, and 4 names atan(3/4).
sin_cos(a) ==
    CASE a = 0 -> <<I(0), I(1)>>
      [] a = 1 -> <<I(1), I(0)>>
      [] a = 2 -> <<I(0), I(-1)>>
      [] a = 3 -> <<I(-1), I(0)>>
      [] a = 4 -> <<<<3, 5>>, <<4, 5>>>>

rotate(self, angle, axis) ==
    LET x == axis[1]
        y == axis[2]
        z == axis[3]
        sin == sin_cos(angle)[1]
        cos == sin_cos(angle)[2]
        rcos == fsub(I(1), cos)
        trans ==
            [r1 |-> <<fadd(cos, fmul(fmul(rcos, x), x)),
                      fsub(fmul(fmul(rcos, x), y), fmul(sin, z)),
                      fadd(fmul(fmul(rcos, x), z), fmul(sin, y))>>,
             r2 |-> <<fadd(fmul(fmul(rcos, y), x), fmul(sin, z)),
                      fadd(cos, fmul(fmul(rcos, y), y)),
                      fsub(fmul(fmul(rcos, y), z), fmul(sin, x))>>,
             r3 |-> <<fsub(fmul(fmul(rcos, z), x), fmul(sin, y)),
                      fadd(fmul(fmul(rcos, z), y), fmul(sin, x)),
                      fadd(cos, fmul(fmul(rcos, z), z))>>,
             af |-> Vec(0, 0, 0)]
    IN  mul_transform(trans, self)

\* a * b - c * d
det2(a, b, c, d) == fsub(fmul(a, b), fmul(c, d))

inverse_af(self) == vneg(self.af)

inverse(self) ==
    LET a == self.r1
        b == self.r2
        c == self.r3
        m3(p, q, r) == fmul(fmul(p, q), r)
        det == fsub(fadd(fadd(fsub(fsub(m3(a[1], b[2], c[3]),
                                        m3(a[1], b[3], c[2])),
                                   m3(b[1], a[2], c[3])),
                              m3(b[1], a[3], c[2])),
                         m3(c[1], a[2], b[3])),
                    m3(c[1], a[3], b[2]))
    IN  [r1 |-> <<fdiv(det2(b[2], c[3], c[2], b[3]), det),
                  fdiv(det2(a[3], c[2], a[2], c[3]), det),
                  fdiv(det2(a[2], b[3], a[3], b[2]), det)>>,
         r2 |-> <<fdiv(det2(b[3], c[1], b[1], c[3]), det),
                  fdiv(det2(a[1], c[3], a[3], c[1]), det),
                  fdiv(det2(b[1], a[3], a[1], b[3]), det)>>,
         r3 |-> <<fdiv(det2(b[1], c[2], b[2], c[1]), det),
                  fdiv(det2(a[2], c[1], a[1], c[2]), det),
                  fdiv(det2(a[1], b[2], b[1], a[2]), det)>>,
         af |-> inverse_af(self)]

(***************************************************************************)
(* Specification SpecCast: one call of ray_cast_tri on bounded inputs      *)
(***************************************************************************)
Pending == [tag |-> "Pending"]

\* Largest vertex coordinate of the generated triangles.
MaxCoord == 2

GridPoints == {Vec(x, y, z) : x \in {0, MaxCoord}, y \in {0, MaxCoord}, z \in 1..MaxCoord}

\* |cross(y, x)|^2 of the triangle on three points (integer coordinates).
CrossNorm2(pts) ==
    LET c == cross(rel_from(pts[3], pts[1]), rel_from(pts[2], pts[1]))
    IN  dot(c, c)[1]

\* Triangles whose normal has a rational length, the zero-area ones (whose
\* length is zero) included.
GridTris == {pts \in GridPoints \X GridPoints \X GridPoints : IsSquare(CrossNorm2(pts))}

\* The triangle of the demo scene.
TriDemo == <<Vec(0, 0, 1), Vec(0, 1, 1), Vec(1, 0, 1)>>

\* A triangle in the plane z = 2 around the z axis.
TriFlat == <<Vec(-1, -1, 2), Vec(-1, 3, 2), Vec(3, -1, 2)>>

\* A triangle in the plane 4x + 3z = 9, which meets the z axis at z = 3.
TriOblique == <<Vec(-3, -2, 7), Vec(-3, 6, 7), Vec(3, -2, -1)>>

\* Three collinear points: a triangle of area zero.
TriLine == <<Vec(0, 0, 1), Vec(1, 0, 1), Vec(2, 0, 1)>>

CastTris == GridTris \cup {TriDemo, TriFlat, TriOblique, TriLine}

Half == <<1, 2>>

RayOrigins ==
    {Vec(0, 0, 0), <<Half, Half, I(0)>>, Vec(1, 1, 3), <<Half, Half, I(1)>>,
     Vec(3, 3, 0)}

RayDirs ==
    {Vec(0, 0, 1), Vec(0, 0, -1), Vec(1, 0, 0), <<I(0), <<3, 5>>, <<4, 5>>>>,
     Vec(0, 0, 0)}

Centroid(pts) == vdiv(vadd(vadd(pts[1], pts[2]), pts[3]), I(3))

\* The rays that start two normal lengths off the centroid, on either side of
\* the triangle, and are aimed at the centroid along the normal.
CentroidRays(pts) ==
    LET n == Triangle_new(pts[1], pts[2], pts[3]).n
    IN  IF IsNaN(n[1]) THEN {}
        ELSE {[o |-> affine_add(Centroid(pts), vmul(n, I(k))), v |-> vmul(n, I(-Sgn(k)))] :
                 k \in {-2, 2}}

CastRays(pts) == {[o |-> o, v |-> v] : o \in RayOrigins, v \in RayDirs} \cup CentroidRays(pts)

CastTri == Triangle_new(castPts[1], castPts[2], castPts[3])

\* No trace call is in progress.
IdleTrace ==
    /\ tracer = "none"
    /\ scene = <<>>
    /\ rayArg = <<>>
    /\ payload = 0
    /\ pc = "idle"
    /\ oi = 1
    /\ ti = 1
    /\ cur = None
    /\ closest = None
    /\ calls = <<>>
    /\ ret = None

\* Number of worker threads of the pool the parallel iterators run on.
NumWorkers == 2

Workers == 1..NumWorkers

\* No draw call is in progress.
IdleDraw ==
    /\ fbw = 0
    /\ fbh = 0
    /\ dpc = "idle"
    /\ todo = {}
    /\ wpc = [w \in Workers |-> "idle"]
    /\ wpx = [w \in Workers |-> <<>>]
    /\ wcolor = [w \in Workers |-> <<>>]
    /\ mutex = 0
    /\ stored = <<>>

\* No transform is being built.
IdleXf == xf = eye /\ xfOps = <<>> /\ xfUniform = TRUE /\ xfProd = None

\* No pixel is being shaded.
IdleShade == shPc = "idle" /\ shPrimary = 0 /\ shStack = <<>>

\* No reflect call is in progress.
IdleRefl == reflI = <<>> /\ reflN = <<>> /\ reflOut = Pending

\* No sampler is in use.
IdleSmp == smpImgs = <<>> /\ smpDir = <<>> /\ smpValid = Pending /\ smpOut = Pending

\* No product of transforms is being applied.
IdleCmp == cmpA = eye /\ cmpB = eye /\ cmpArg = <<>> /\ cmpOut = Pending

InitCast ==
    /\ castPts \in CastTris
    /\ castRay \in CastRays(castPts)
    /\ castOut = Pending
    /\ IdleTrace
    /\ IdleDraw
    /\ IdleXf
    /\ IdleShade
    /\ IdleRefl
    /\ IdleSmp
    /\ IdleCmp

CastCall ==
    /\ castOut = Pending
    /\ castOut' = ray_cast_tri(castRay, CastTri)
    /\ UNCHANGED <<castRay, castPts>>
    /\ UNCHANGED <<traceVars, drawVars, xfVars, shadeVars, reflVars, smpVars, cmpVars>>

NextCast == CastCall

SpecCast == InitCast /\ [][NextCast]_vars

CastD == cast_r1(castRay, CastTri)

CastR == cast_r2(castRay, CastTri)

\* C8: ray_cast_tri returns no intersection whenever d * r >= 0: when the ray
\* is parallel to the plane (r = 0), when the origin lies on the plane
\* (d = 0) and when the ray points away from the plane (d and r of one sign).
C8_RejectsHalfSpace ==
    castOut # Pending =>
        /\ fge(fmul(CastD, CastR), I(0)) => castOut = None
        /\ CastR = I(0) /\ ~IsNaN(CastD) => castOut = None
        /\ CastD = I(0) /\ ~IsNaN(CastR) => castOut = None
        /\ (flt(CastD, I(0)) /\ flt(CastR, I(0))) => castOut = None
        /\ (fgt(CastD, I(0)) /\ fgt(CastR, I(0))) => castOut = None

\* The call has returned for a ray that points away from the plane of a
\* triangle it would otherwise pierce.
C8_Witness ==
    /\ castOut = None
    /\ fgt(CastD, I(0))
    /\ fgt(CastR, I(0))
    /\ Barycentric_new(affine_sub(castRay.o, vdiv(vmul(castRay.v, CastD), CastR)), CastTri).tag = "Some"

\* The ray starts on the front side, straight above the centroid, and runs
\* against the normal.
AimedAtCentroid(side) ==
    LET off == rel_from(castRay.o, Centroid(castPts))
        s   == dot(off, CastTri.n)
    IN  /\ ~IsNaN(s)
        /\ IF side = "Front" THEN fgt(s, I(0)) ELSE flt(s, I(0))
        /\ off = vmul(CastTri.n, s)
        /\ castRay.v = (IF side = "Front" THEN vneg(CastTri.n) ELSE CastTri.n)

\* C9: a returned intersection has t = |d| >= 0, kind Front exactly when
\* r < 0, and u >= 0, v >= 0, u + v <= 1; a ray aimed at the centroid along
\* the normal from the front yields Front with u, v > 0 and u + v < 1, and
\* from the other side Back.
C9_HitShape ==
    castOut # Pending =>
        /\ castOut.tag = "Some" =>
              /\ castOut.val.t = fabs(CastD)
              /\ fge(castOut.val.t, I(0))
              /\ (castOut.val.kind = "Front") <=> flt(CastR, I(0))
              /\ fge(castOut.val.attr.u, I(0))
              /\ fge(castOut.val.attr.v, I(0))
              /\ fle(fadd(castOut.val.attr.u, castOut.val.attr.v), I(1))
        /\ AimedAtCentroid("Front") =>
              /\ castOut.tag = "Some"
              /\ castOut.val.kind = "Front"
              /\ fgt(castOut.val.attr.u, I(0))
              /\ fgt(castOut.val.attr.v, I(0))
              /\ flt(fadd(castOut.val.attr.u, castOut.val.attr.v), I(1))
        /\ AimedAtCentroid("Back") =>
              /\ castOut.tag = "Some"
              /\ castOut.val.kind = "Back"

\* The same statement for the triangles of non-zero area only.
C9_HitShapeNonDegenerate == ~IsNaN(CastTri.n[1]) => C9_HitShape

C9_SeenFront == castOut # Pending /\ AimedAtCentroid("Front")

C9_SeenBack == castOut # Pending /\ AimedAtCentroid("Back")

C9_SeenOblique == castOut.tag = "Some" /\ castPts = TriOblique /\ castRay.v = Vec(0, 0, 1)

(***************************************************************************)
(* Specification SpecTrace: one call of RayTracer::trace                   *)
(*                                                                         *)
(* Two RayTracer implementations are bound to the engine.  "abstract"      *)
(* leaves intersect and any_hit free: intersect returns None or any        *)
(* intersection with t in TVals, any_hit accepts or rejects.               *)
(* "ray_cast_tri" is the tracer whose intersect is geom::ray_cast_tri and  *)
(* whose any_hit accepts every hit.  In both, any_hit counts its calls in  *)
(* the payload, and closest_hit and miss return any color.                 *)
(***************************************************************************)
\* Largest number of objects of a scene.
MaxObjs == 2

\* Largest number of triangles of a scene of the abstract tracer.
MaxScan == 3

Colors == {"c1", "c2"}

TVals == {I(1), I(2), INFINITY, NaN}

IdleCast == castRay = <<>> /\ castPts = <<>> /\ castOut = Pending

Object(verts, idxs, mat, world2obj) ==
    [verts |-> verts, idxs |-> idxs, mat |-> mat,
     obj2world |-> inverse(world2obj), world2obj |-> world2obj]

\* model::make_pln
make_pln(mat, world2obj) ==
    Object(<< <<fneg(Half), I(0), fneg(Half)>>, <<fneg(Half), I(0), Half>>,
              <<Half, I(0), Half>>, <<Half, I(0), fneg(Half)>> >>,
           << <<0, 1, 2>>, <<0, 2, 3>> >>, mat, world2obj)

ObjEmpty == Object(<<>>, <<>>, "m0", eye)

ObjDemo == Object(TriDemo, << <<0, 1, 2>> >>, "m1", eye)

ObjPln == make_pln("m2", translate(eye, Vec(0, 1, 0)))

ObjFlat == Object(TriFlat, << <<0, 1, 2>> >>, "flat", eye)

\* TriOblique, authored one unit lower and moved up by world2obj.
ObjOblique ==
    Object(<<Vec(-3, -2, 6), Vec(-3, 6, 6), Vec(3, -2, -2)>>, << <<0, 1, 2>> >>,
           "oblique", translate(eye, Vec(0, 0, 1)))

ObjLine == Object(TriLine, << <<0, 1, 2>> >>, "line", eye)

RECURSIVE SeqsUpTo(_, _)
SeqsUpTo(S, n) ==
    IF n = 0 THEN {<<>>}
    ELSE LET shorter == SeqsUpTo(S, n - 1)
         IN  shorter \cup {Append(q, x) : q \in shorter, x \in S}

RECURSIVE TriCount(_)
TriCount(sc) == IF sc = <<>> THEN 0 ELSE Len(Head(sc).idxs) + TriCount(Tail(sc))

AbstractScenes ==
    {sc \in SeqsUpTo({ObjEmpty, ObjDemo, ObjPln}, MaxObjs) : TriCount(sc) <= MaxScan}

GeomScenes == SeqsUpTo({ObjFlat, ObjOblique, ObjLine, ObjDemo, ObjEmpty}, MaxObjs)

GeomRays ==
    {[o |-> o, v |-> v] :
        o \in {Vec(0, 0, 0), Vec(0, 0, 5), <<Half, Half, I(0)>>},
        v \in {Vec(0, 0, 1), Vec(0, 0, -1), <<I(0), <<3, 5>>, <<4, 5>>>>}}

\* Nested loops of which the outer one stops after the first object that
\* has triangles.
Seek_first_object_only(o, t) ==
    IF o > Len(scene) THEN <<Len(scene) + 1, 1>>
    ELSE IF t <= Len(scene[o].idxs) THEN <<o, t>>
    ELSE IF t > 1 \/ o = Len(scene) THEN <<Len(scene) + 1, 1>>
    ELSE IF 1 <= Len(scene[o + 1].idxs) THEN <<o + 1, 1>>
    ELSE <<Len(scene) + 1, 1>>

\* The position of the nested loops at or after (o, t): the next triangle in
\* scene order then index order, or <<Len(scene) + 1, 1>> past the last one.
RECURSIVE Seek(_, _)
Seek(o, t) ==
    IF o > Len(scene) THEN <<Len(scene) + 1, 1>>
    ELSE IF t <= Len(scene[o].idxs) THEN <<o, t>>
    ELSE Seek(o + 1, 1)

\* The triangle the loop body builds for index triple t of object o.
TriAt(o, t) ==
    LET obj   == scene[o]
        verts == [i \in 1..Len(obj.verts) |-> mul_point(obj.world2obj, obj.verts[i])]
        ix    == obj.idxs[t]
    IN  Triangle_new(verts[ix[1] + 1], verts[ix[2] + 1], verts[ix[3] + 1])

\* The values the bound tracer's intersect can return.
intersect(ry, tri, mat) ==
    IF tracer = "ray_cast_tri" THEN {ray_cast_tri(ry, tri)}
    ELSE {None} \cup {Some([attr |-> "attr", kind |-> "Front", t |-> t]) : t \in TVals}

\* The values the bound tracer's any_hit can return.
any_hit(ry, tri, x, mat) == IF tracer = "ray_cast_tri" THEN {TRUE} ELSE BOOLEAN

\* closest.as_ref().map(|(_, _, intersect)| intersect.t).unwrap_or(INFINITY)
tmax_of(c) == IF c.tag = "Some" THEN c.val.x.t ELSE INFINITY

\* A trace that lets every accepted hit replace the candidate.
replaces_last_accepted(acc, x, tmax) == acc

\* A trace that does not consult any_hit, as the one of main.rs.
replaces_ignoring_any_hit(acc, x, tmax) == flt(x.t, tmax)

\* A trace in which a hit as near as the candidate replaces it too.
replaces_on_ties(acc, x, tmax) == acc /\ (flt(x.t, tmax) \/ (IsFinite(x.t) /\ x.t = tmax))

\* Whether the hit x, for which any_hit returned acc, replaces the candidate.
replaces(acc, x, tmax) == acc /\ flt(x.t, tmax)

\* The material handed on with the candidate found in object o.
candidate_mat(o) == scene[o].mat

InitTrace ==
    /\ IdleCast
    /\ IdleDraw
    /\ IdleXf
    /\ IdleShade
    /\ IdleRefl
    /\ IdleSmp
    /\ IdleCmp
    /\ tracer \in {"abstract", "ray_cast_tri"}
    /\ scene \in (IF tracer = "abstract" THEN AbstractScenes ELSE GeomScenes)
    /\ rayArg \in (IF tracer = "abstract" THEN {[o |-> Vec(0, 0, 0), v |-> Vec(0, 0, 1)]}
                   ELSE GeomRays)
    /\ payload = 0
    /\ pc = "loop"
    /\ oi = Seek(1, 1)[1]
    /\ ti = Seek(1, 1)[2]
    /\ cur = None
    /\ closest = None
    /\ calls = <<>>
    /\ ret = None

\* rt.rs line 94: build the triangle and call intersect.
TraceIntersect ==
    /\ pc = "loop"
    /\ oi <= Len(scene)
    /\ \E r \in intersect(rayArg, TriAt(oi, ti), scene[oi].mat) :
          /\ calls' = Append(calls, [fn |-> "intersect", at |-> <<oi, ti>>,
                                     tri |-> TriAt(oi, ti), mat |-> scene[oi].mat,
                                     payload |-> payload, out |-> r])
          /\ IF r.tag = "Some"
             THEN /\ cur' = r
                  /\ pc' = "any_hit"
                  /\ UNCHANGED <<oi, ti>>
             ELSE /\ cur' = None
                  /\ pc' = "loop"
                  /\ oi' = Seek(oi, ti + 1)[1]
                  /\ ti' = Seek(oi, ti + 1)[2]
    /\ UNCHANGED <<tracer, scene, rayArg, payload, closest, ret>>
    /\ UNCHANGED <<castVars, drawVars, xfVars, shadeVars, reflVars, smpVars, cmpVars>>

\* rt.rs lines 95-102: call any_hit and update `closest`.
TraceAnyHit ==
    /\ pc = "any_hit"
    /\ \E acc \in any_hit(rayArg, TriAt(oi, ti), cur.val, scene[oi].mat) :
          /\ payload' = payload + 1
          /\ calls' = Append(calls, [fn |-> "any_hit", at |-> <<oi, ti>>,
                                     tri |-> TriAt(oi, ti), mat |-> scene[oi].mat,
                                     x |-> cur.val, payload |-> payload,
                                     out |-> acc])
          /\ closest' = IF replaces(acc, cur.val, tmax_of(closest))
                        THEN Some([tri |-> TriAt(oi, ti), mat |-> candidate_mat(oi),
                                   x |-> cur.val])
                        ELSE closest
    /\ cur' = None
    /\ pc' = "loop"
    /\ oi' = Seek(oi, ti + 1)[1]
    /\ ti' = Seek(oi, ti + 1)[2]
    /\ UNCHANGED <<tracer, scene, rayArg, ret>>
    /\ UNCHANGED <<castVars, drawVars, xfVars, shadeVars, reflVars, smpVars, cmpVars>>

\* The callback trace ends with: closest_hit on a candidate, miss without.
final_call(c, pl, color) ==
    IF c.tag = "Some"
    THEN [fn |-> "closest_hit", tri |-> c.val.tri, x |-> c.val.x,
          mat |-> c.val.mat, payload |-> pl, out |-> color]
    ELSE [fn |-> "miss", payload |-> pl, out |-> color]

\* rt.rs lines 106-110: after the loops, call closest_hit or miss and return
\* its color.
TraceFinish ==
    /\ pc = "loop"
    /\ oi > Len(scene)
    /\ \E color \in Colors :
          /\ calls' = Append(calls, final_call(closest, payload, color))
          /\ ret' = Some(color)
    /\ pc' = "done"
    /\ UNCHANGED <<tracer, scene, rayArg, payload, oi, ti, cur, closest>>
    /\ UNCHANGED <<castVars, drawVars, xfVars, shadeVars, reflVars, smpVars, cmpVars>>

NextTrace == TraceIntersect \/ TraceAnyHit \/ TraceFinish

SpecTrace == InitTrace /\ [][NextTrace]_vars

(***************************************************************************)
(* Properties of trace                                                     *)
(***************************************************************************)
Final == calls[Len(calls)]

CallsOf(fns) == {i \in DOMAIN calls : calls[i].fn \in fns}

\* The any_hit calls that returned true.
Accepted == {i \in CallsOf({"any_hit"}) : calls[i].out}

\* C1: the intersection handed to closest_hit is one that intersect returned
\* and any_hit accepted in this call, no accepted intersection has a smaller
\* t, and the triangle and material handed over are those of the triangle
\* that produced it (the material of the object that owns the triangle).
C1_ClosestIsMinimum ==
    (pc = "done" /\ Final.fn = "closest_hit") =>
        /\ \E i \in Accepted :
              /\ calls[i].x = Final.x
              /\ calls[i].tri = Final.tri
              /\ calls[i].mat = Final.mat
              /\ calls[i - 1].fn = "intersect"
              /\ calls[i - 1].at = calls[i].at
              /\ calls[i - 1].out = Some(Final.x)
              /\ Final.tri = TriAt(calls[i].at[1], calls[i].at[2])
              /\ Final.mat = scene[calls[i].at[1]].mat
        /\ \A i \in Accepted : ~flt(calls[i].x.t, Final.x.t)

\* closest_hit was handed a hit that was accepted before the last accepted
\* one, in another object, which has a larger t.
C1_Witness ==
    /\ pc = "done"
    /\ Final.fn = "closest_hit"
    /\ \E i, j \in Accepted :
          /\ i < j
          /\ calls[i].at[1] # calls[j].at[1]
          /\ calls[i].mat # calls[j].mat
          /\ calls[i].x = Final.x
          /\ calls[i].mat = Final.mat
          /\ flt(calls[i].x.t, calls[j].x.t)

\* C2 as claimed: trace invokes exactly one of closest_hit and miss, once,
\* and returns its color: closest_hit whenever an intersection was returned
\* and accepted, miss otherwise; a scene without triangles ends in miss.
C2_ExactlyOneFinalCall ==
    /\ pc # "done" => CallsOf({"closest_hit", "miss"}) = {}
    /\ pc = "done" =>
          /\ CallsOf({"closest_hit", "miss"}) = {Len(calls)}
          /\ ret = Some(Final.out)
          /\ (Final.fn = "closest_hit") <=> (Accepted # {})
          /\ TriCount(scene) = 0 => Final.fn = "miss"

\* The scene has exactly one triangle and intersect reported a hit on it.
OneTriangleHit ==
    /\ pc = "done"
    /\ TriCount(scene) = 1
    /\ calls[1].fn = "intersect"
    /\ calls[1].out.tag = "Some"

HandedToClosestHit(i) ==
    /\ Final.fn = "closest_hit"
    /\ Final.x = calls[i].out.val
    /\ Final.tri = calls[i].tri
    /\ Final.mat = calls[i].mat
    /\ ret = Some(Final.out)

\* C3 as claimed: with one triangle and a ray that hits it, closest_hit is
\* invoked with that triangle's material and intersection whatever any_hit
\* returns.
C3_RegardlessOfAnyHit == OneTriangleHit => HandedToClosestHit(1)

\* C3 as amended: with one triangle and a ray that hits it, closest_hit is
\* invoked with that triangle's material and intersection exactly when
\* any_hit returns true and the intersection's t is below +infinity; in every
\* other case miss is invoked.
C3_WhenAnyHitAccepts ==
    OneTriangleHit =>
        IF calls[2].out /\ flt(calls[1].out.val.t, INFINITY)
        THEN HandedToClosestHit(1)
        ELSE Final.fn = "miss" /\ ret = Some(Final.out)

C3_Witness == OneTriangleHit /\ calls[2].out /\ HandedToClosestHit(1)

\* The parameter s of the point o + s * v where the ray meets the plane of
\* the triangle: the distance along the ray, in units of |v|.
AlongRay(ry, tri) == fdiv(fneg(cast_r1(ry, tri)), cast_r2(ry, tri))

\* C4 as claimed: with intersect = ray_cast_tri and any_hit accepting every
\* hit, no triangle the ray intersects is met nearer to the ray origin, along
\* the ray, than the triangle handed to closest_hit.
C4_TrueNearestHit ==
    (tracer = "ray_cast_tri" /\ pc = "done" /\ Final.fn = "closest_hit") =>
        \A i \in CallsOf({"intersect"}) :
            calls[i].out.tag = "Some" =>
                ~flt(AlongRay(rayArg, calls[i].tri), AlongRay(rayArg, Final.tri))

(***************************************************************************)
(* Specification SpecDraw: one call of RayTracer::draw                     *)
(*                                                                         *)
(* The nested parallel iterators hand every closure call (x, y) to some    *)
(* worker of the pool, in any order.  The statement a worker runs is       *)
(*     framebuf.lock().unwrap().store(x, y, self.ray_gen(x, y, w, h));     *)
(* the receiver is evaluated first (the lock is taken), then the argument  *)
(* (ray_gen runs), then store is called, and the guard is dropped at the   *)
(* end of the statement.                                                   *)
(***************************************************************************)
\* Largest number of pixels of a frame buffer.
MaxPixels == 4

FrameSizes == {d \in (0..MaxPixels) \X (0..MaxPixels) : d[1] * d[2] <= MaxPixels}

\* The color ray_gen returns for a pixel: an uninterpreted function of its
\* four arguments.
ray_gen(x, y, w, h) == <<"color", x, y, w, h>>

\* Iterators over inclusive ranges of x.
pixels_inclusive(w, h) == (0..w) \X (0..(h - 1))

\* The items of (0..w) nested with (0..h): Rust ranges exclude the end.
pixels(w, h) == (0..(w - 1)) \X (0..(h - 1))

\* A lock that never blocks.
can_lock_always(owner) == TRUE

\* Mutex::lock returns only when no other thread holds the lock.
can_lock(owner) == owner = 0

\* for_each returns when every item has been taken and run to its end.
all_done(td, wp) == td = {} /\ \A w \in Workers : wp[w] = "idle"

InitDraw ==
    /\ IdleCast
    /\ IdleTrace
    /\ IdleXf
    /\ IdleShade
    /\ IdleRefl
    /\ IdleSmp
    /\ IdleCmp
    /\ \E d \in FrameSizes : fbw = d[1] /\ fbh = d[2]
    /\ dpc = "start"
    /\ todo = {}
    /\ wpc = [w \in Workers |-> "idle"]
    /\ wpx = [w \in Workers |-> <<>>]
    /\ wcolor = [w \in Workers |-> <<>>]
    /\ mutex = 0
    /\ stored = <<>>

\* rt.rs lines 117-121: read the size, wrap the sink, start the iterators.
DrawStart ==
    /\ dpc = "start"
    /\ dpc' = "running"
    /\ todo' = pixels(fbw, fbh)
    /\ UNCHANGED <<fbw, fbh, wpc, wpx, wcolor, mutex, stored>>
    /\ UNCHANGED <<castVars, traceVars, xfVars, shadeVars, reflVars, smpVars, cmpVars>>

\* A worker takes one item (x, y) and starts the closure on it.
WorkerTake(w) ==
    /\ dpc = "running"
    /\ wpc[w] = "idle"
    /\ \E px \in todo :
          /\ todo' = todo \ {px}
          /\ wpx' = [wpx EXCEPT ![w] = px]
    /\ wpc' = [wpc EXCEPT ![w] = "lock"]
    /\ UNCHANGED <<fbw, fbh, dpc, wcolor, mutex, stored>>
    /\ UNCHANGED <<castVars, traceVars, xfVars, shadeVars, reflVars, smpVars, cmpVars>>

\* framebuf.lock().unwrap(): the receiver of the call.
WorkerLock(w) ==
    /\ wpc[w] = "lock"
    /\ can_lock(mutex)
    /\ mutex' = w
    /\ wpc' = [wpc EXCEPT ![w] = "ray_gen"]
    /\ UNCHANGED <<fbw, fbh, dpc, todo, wpx, wcolor, stored>>
    /\ UNCHANGED <<castVars, traceVars, xfVars, shadeVars, reflVars, smpVars, cmpVars>>

\* self.ray_gen(x, y, w, h) returns; store is entered with its color.
WorkerRayGen(w) ==
    /\ wpc[w] = "ray_gen"
    /\ wcolor' = [wcolor EXCEPT ![w] = ray_gen(wpx[w][1], wpx[w][2], fbw, fbh)]
    /\ wpc' = [wpc EXCEPT ![w] = "in_store"]
    /\ UNCHANGED <<fbw, fbh, dpc, todo, wpx, mutex, stored>>
    /\ UNCHANGED <<castVars, traceVars, xfVars, shadeVars, reflVars, smpVars, cmpVars>>

\* Framebuffer::store(x, y, color) does its write and returns.
WorkerStore(w) ==
    /\ wpc[w] = "in_store"
    /\ stored' = Append(stored, [x |-> wpx[w][1], y |-> wpx[w][2], color |-> wcolor[w]])
    /\ wpc' = [wpc EXCEPT ![w] = "unlock"]
    /\ UNCHANGED <<fbw, fbh, dpc, todo, wpx, wcolor, mutex>>
    /\ UNCHANGED <<castVars, traceVars, xfVars, shadeVars, reflVars, smpVars, cmpVars>>

\* End of the statement: the MutexGuard temporary is dropped.
WorkerUnlock(w) ==
    /\ wpc[w] = "unlock"
    /\ mutex' = (IF mutex = w THEN 0 ELSE mutex)
    /\ wpc' = [wpc EXCEPT ![w] = "idle"]
    /\ wpx' = [wpx EXCEPT ![w] = <<>>]
    /\ wcolor' = [wcolor EXCEPT ![w] = <<>>]
    /\ UNCHANGED <<fbw, fbh, dpc, todo, stored>>
    /\ UNCHANGED <<castVars, traceVars, xfVars, shadeVars, reflVars, smpVars, cmpVars>>

\* The outer for_each, and with it draw, returns.
DrawReturn ==
    /\ dpc = "running"
    /\ all_done(todo, wpc)
    /\ dpc' = "done"
    /\ UNCHANGED <<fbw, fbh, todo, wpc, wpx, wcolor, mutex, stored>>
    /\ UNCHANGED <<castVars, traceVars, xfVars, shadeVars, reflVars, smpVars, cmpVars>>

NextDraw ==
    \/ DrawStart
    \/ \E w \in Workers : WorkerTake(w)
    \/ \E w \in Workers : WorkerLock(w)
    \/ \E w \in Workers : WorkerRayGen(w)
    \/ \E w \in Workers : WorkerStore(w)
    \/ \E w \in Workers : WorkerUnlock(w)
    \/ DrawReturn

SpecDraw == InitDraw /\ [][NextDraw]_vars

StoresAt(x, y) == {i \in DOMAIN stored : stored[i].x = x /\ stored[i].y = y}

\* C5: in every interleaving draw calls store at most once per pixel, only
\* for 0 <= x < w and 0 <= y < h and with the color ray_gen(x, y, w, h), and
\* when draw has returned every pixel of the raster was stored exactly once.
C5_EveryPixelOnce ==
    /\ \A i \in DOMAIN stored :
          /\ stored[i].x \in 0..(fbw - 1)
          /\ stored[i].y \in 0..(fbh - 1)
          /\ stored[i].color = ray_gen(stored[i].x, stored[i].y, fbw, fbh)
          /\ StoresAt(stored[i].x, stored[i].y) = {i}
    /\ dpc = "done" =>
          \A x \in 0..(fbw - 1), y \in 0..(fbh - 1) : Cardinality(StoresAt(x, y)) = 1

\* draw has returned from a raster of several columns and rows.
C5_Witness == dpc = "done" /\ fbw > 1 /\ fbh > 1 /\ Len(stored) = fbw * fbh

\* C6: at most one worker is inside Framebuffer::store at any moment.
C6_StoreSerialized == Cardinality({w \in Workers : wpc[w] = "in_store"}) <= 1

\* One worker is inside store while another one waits for the lock.
C6_Witness == \E v, w \in Workers : wpc[v] = "in_store" /\ wpc[w] = "lock"

(***************************************************************************)
(* Specification SpecXf: Transform::eye() followed by builder calls, then  *)
(* the product of the transform with its own inverse                       *)
(***************************************************************************)
\* Largest number of builder calls on one transform.
MaxOps == 3

XfTranslations == {Vec(1, 0, 0), Vec(0, 2, -1)}

XfScales == {Vec(2, 2, 2), <<Half, Half, Half>>, Vec(1, 2, 1)}

XfAngles == {1, 4}

XfAxes == {Vec(0, 0, 1), Vec(1, 0, 0)}

InitXf ==
    /\ IdleCast
    /\ IdleTrace
    /\ IdleDraw
    /\ IdleShade
    /\ IdleRefl
    /\ IdleSmp
    /\ IdleCmp
    /\ xf = eye
    /\ xfOps = <<>>
    /\ xfUniform = TRUE
    /\ xfProd = None

XfTranslate ==
    /\ xfProd = None
    /\ Len(xfOps) < MaxOps
    /\ \E af \in XfTranslations : xf' = translate(xf, af)
    /\ xfOps' = Append(xfOps, "translate")
    /\ UNCHANGED <<xfUniform, xfProd>>
    /\ UNCHANGED <<castVars, traceVars, drawVars, shadeVars, reflVars, smpVars, cmpVars>>

XfScale ==
    /\ xfProd = None
    /\ Len(xfOps) < MaxOps
    /\ \E sc \in XfScales :
          /\ xf' = scale(xf, sc)
          /\ xfUniform' = (xfUniform /\ sc[1] = sc[2] /\ sc[2] = sc[3])
    /\ xfOps' = Append(xfOps, "scale")
    /\ UNCHANGED xfProd
    /\ UNCHANGED <<castVars, traceVars, drawVars, shadeVars, reflVars, smpVars, cmpVars>>

XfRotate ==
    /\ xfProd = None
    /\ Len(xfOps) < MaxOps
    /\ \E angle \in XfAngles, axis \in XfAxes : xf' = rotate(xf, angle, axis)
    /\ xfOps' = Append(xfOps, "rotate")
    /\ UNCHANGED <<xfUniform, xfProd>>
    /\ UNCHANGED <<castVars, traceVars, drawVars, shadeVars, reflVars, smpVars, cmpVars>>

\* T * T.inverse()
XfTimesInverse ==
    /\ xfProd = None
    /\ xfProd' = Some(mul_transform(xf, inverse(xf)))
    /\ UNCHANGED <<xf, xfOps, xfUniform>>
    /\ UNCHANGED <<castVars, traceVars, drawVars, shadeVars, reflVars, smpVars, cmpVars>>

NextXf == XfTranslate \/ XfScale \/ XfRotate \/ XfTimesInverse

SpecXf == InitXf /\ [][NextXf]_vars

\* C10 as claimed: for a transform built from eye() by translate, uniform
\* scale and rotate calls, T * T.inverse() is the identity transform.
C10_TimesInverseIsIdentity ==
    (xfProd # None /\ xfUniform) => xfProd.val = eye

\* What the code does compute: the linear part of T * T.inverse() is the
\* identity, and its translation is t - R t for T = (R, t).
C10_LinearPartOnly ==
    xfProd # None =>
        /\ xfProd.val.r1 = eye.r1
        /\ xfProd.val.r2 = eye.r2
        /\ xfProd.val.r3 = eye.r3
        /\ xfProd.val.af = vsub(xf.af, mul_vector(xf, xf.af))

(***************************************************************************)
(* Specification SpecShade: one ray_gen call of a recursive shading        *)
(* strategy on top of trace                                                *)
(*                                                                         *)
(* The engine side is rt.rs: every trace call ends in closest_hit when its *)
(* scan left a candidate and in miss when it did not.  The strategy side   *)
(* follows section 4.3 of the specification: closest_hit traces secondary  *)
(* rays (a reflection ray, diffuse samples) with the recursion counter of  *)
(* the payload incremented, and falls back to a non-recursive term once    *)
(* the counter has reached the bound; miss does not trace.                 *)
(***************************************************************************)
\* The recursion bound N of the shading strategy.
MaxBounce == 3

\* Largest number of secondary rays one closest_hit call traces.
MaxSecondary == 3

\* Largest number of primary rays one ray_gen call traces.
MaxPrimary == 2

\* A closest_hit that compares the counter with <= instead of <.
may_recurse_once_more(counter) == counter <= MaxBounce

\* closest_hit recurses only while the counter is below the bound.
may_recurse(counter) == counter < MaxBounce

\* The local `closest` a scan can end with.
ScanResults == {None, Some([tri |-> "tri", mat |-> "mat", x |-> "x"])}

InitShade ==
    /\ IdleCast
    /\ IdleTrace
    /\ IdleDraw
    /\ IdleXf
    /\ IdleRefl
    /\ IdleSmp
    /\ IdleCmp
    /\ shPc = "ray_gen"
    /\ shPrimary \in 1..MaxPrimary
    /\ shStack = <<>>

Top == shStack[Len(shStack)]

Pop == SubSeq(shStack, 1, Len(shStack) - 1)

\* ray_gen creates a fresh payload and traces a primary ray.
ShadePrimary ==
    /\ shPc = "ray_gen"
    /\ shStack = <<>>
    /\ shPrimary > 0
    /\ shPrimary' = shPrimary - 1
    /\ shStack' = <<[counter |-> 0, phase |-> "scan", left |-> 0]>>
    /\ UNCHANGED shPc
    /\ UNCHANGED <<castVars, traceVars, drawVars, xfVars, reflVars, smpVars, cmpVars>>

\* The scan of the innermost trace call ends without a candidate: miss
\* returns a color and the trace call returns.
ShadeMiss ==
    /\ shStack # <<>>
    /\ Top.phase = "scan"
    /\ \E c \in ScanResults : final_call(c, Top.counter, "c1").fn = "miss"
    /\ shStack' = Pop
    /\ UNCHANGED <<shPc, shPrimary>>
    /\ UNCHANGED <<castVars, traceVars, drawVars, xfVars, reflVars, smpVars, cmpVars>>

\* The scan ends with a candidate: closest_hit starts, and decides how many
\* secondary rays it traces (none when the counter has reached the bound).
ShadeClosestHit ==
    /\ shStack # <<>>
    /\ Top.phase = "scan"
    /\ \E c \in ScanResults : final_call(c, Top.counter, "c1").fn = "closest_hit"
    /\ \E k \in 0..MaxSecondary :
          /\ k > 0 => may_recurse(Top.counter)
          /\ shStack' = [shStack EXCEPT ![Len(shStack)] =
                            [counter |-> Top.counter, phase |-> "closest_hit", left |-> k]]
    /\ UNCHANGED <<shPc, shPrimary>>
    /\ UNCHANGED <<castVars, traceVars, drawVars, xfVars, reflVars, smpVars, cmpVars>>

\* closest_hit calls trace for a secondary ray, the counter incremented.
ShadeSecondary ==
    /\ shStack # <<>>
    /\ Top.phase = "closest_hit"
    /\ Top.left > 0
    /\ shStack' = Append([shStack EXCEPT ![Len(shStack)].left = Top.left - 1],
                         [counter |-> Top.counter + 1, phase |-> "scan", left |-> 0])
    /\ UNCHANGED <<shPc, shPrimary>>
    /\ UNCHANGED <<castVars, traceVars, drawVars, xfVars, reflVars, smpVars, cmpVars>>

\* closest_hit has traced its secondary rays: it returns, and so does trace.
ShadeReturn ==
    /\ shStack # <<>>
    /\ Top.phase = "closest_hit"
    /\ Top.left = 0
    /\ shStack' = Pop
    /\ UNCHANGED <<shPc, shPrimary>>
    /\ UNCHANGED <<castVars, traceVars, drawVars, xfVars, reflVars, smpVars, cmpVars>>

\* ray_gen has averaged its primary rays and returns the color.
ShadeDone ==
    /\ shPc = "ray_gen"
    /\ shStack = <<>>
    /\ shPrimary = 0
    /\ shPc' = "done"
    /\ UNCHANGED <<shPrimary, shStack>>
    /\ UNCHANGED <<castVars, traceVars, drawVars, xfVars, reflVars, smpVars, cmpVars>>

NextShade ==
    \/ ShadePrimary
    \/ ShadeMiss
    \/ ShadeClosestHit
    \/ ShadeSecondary
    \/ ShadeReturn
    \/ ShadeDone

\* One thread runs the evaluation of a pixel: it takes its next step.
SpecShade == InitShade /\ [][NextShade]_vars /\ WF_vars(NextShade)

\* C7: the recursion counter of the payload never exceeds N, so that no more
\* than N trace calls are ever nested inside the trace call of a primary
\* ray, and the evaluation of the ray_gen call terminates.
C7_BoundedRecursion ==
    /\ [](/\ \A i \in DOMAIN shStack : shStack[i].counter = i - 1
          /\ Len(shStack) <= MaxBounce + 1)
    /\ <>(shPc = "done")

\* The recursion has reached the bound: N trace calls are nested inside the
\* primary one and the innermost closest_hit runs without tracing.
C7_Witness ==
    /\ Len(shStack) = MaxBounce + 1
    /\ Top.counter = MaxBounce
    /\ Top.phase = "closest_hit"

(***************************************************************************)
(* reflect (geom.rs)                                                       *)
(***************************************************************************)
\* -2.0 * (i - i.dot(n) * n)
reflect(i, n) == vmul(vsub(i, vmul(n, dot(i, n))), I(-2))

\* The unit vectors along the three axes, both ways.
AxisUnits ==
    {Vec(1, 0, 0), Vec(-1, 0, 0), Vec(0, 1, 0), Vec(0, -1, 0), Vec(0, 0, 1), Vec(0, 0, -1)}

\* Unit vectors off the axes: 3/5 and 4/5 in two of the components.
ObliqueUnits ==
    {<<fdiv(I(3), I(5)), fdiv(I(4), I(5)), I(0)>>,
     <<fdiv(I(-3), I(5)), fdiv(I(4), I(5)), I(0)>>,
     <<I(0), fdiv(I(3), I(5)), fdiv(I(-4), I(5))>>,
     <<I(0), fdiv(I(4), I(5)), fdiv(I(3), I(5))>>,
     <<fdiv(I(4), I(5)), I(0), fdiv(I(3), I(5))>>,
     <<fdiv(I(-4), I(5)), I(0), fdiv(I(-3), I(5))>>}

\* `i` and `n` MUST be normalized.
ReflUnits == AxisUnits \cup ObliqueUnits

InitRefl ==
    /\ IdleCast
    /\ IdleTrace
    /\ IdleDraw
    /\ IdleXf
    /\ IdleShade
    /\ IdleSmp
    /\ IdleCmp
    /\ reflI \in ReflUnits
    /\ reflN \in ReflUnits
    /\ reflOut = Pending

ReflCall ==
    /\ reflOut = Pending
    /\ reflOut' = reflect(reflI, reflN)
    /\ UNCHANGED <<reflI, reflN>>
    /\ UNCHANGED <<castVars, traceVars, drawVars, xfVars, shadeVars, smpVars, cmpVars>>

NextRefl == ReflCall

SpecRefl == InitRefl /\ [][NextRefl]_vars

\* C11: when the incidental vector i and the normal n are unit vectors along
\* the same axis, reflect(i, n) returns -i.
C11_StraightOnReflection ==
    (/\ reflOut # Pending
     /\ reflI \in AxisUnits
     /\ reflN \in {reflI, vneg(reflI)})
        => reflOut = vneg(reflI)

(***************************************************************************)
(* Image (img.rs) and CubeSampler (sampler.rs)                             *)
(***************************************************************************)
\* Largest number of images in the slice handed to the sampler.
MaxImgs == 7

\* Largest width and height of an image.
MaxDim == 3

Panic == [tag |-> "Panic"]

Color(c) == [tag |-> "Color", val |-> c]

\* An Image of w x h pixels; pixel k of image `id` holds the color <<id, k>>.
Image(id, w, h) == [w |-> w, h |-> h, buf |-> [k \in 1..(w * h) |-> <<id, k - 1>>]]

coords2offset(img, x, y) == x + img.w * y

\* self.buf[i]: indexing past the end of the Vec panics.
load_px(img, x, y) ==
    LET i == coords2offset(img, x, y)
    IN  IF i < Len(img.buf) THEN Color(img.buf[i + 1]) ELSE Panic

\* f32::max and f32::min: when one operand is NaN the other is returned.
fmax(a, b) == IF IsNaN(a) THEN b ELSE IF IsNaN(b) THEN a ELSE IF flt(a, b) THEN b ELSE a

fmin(a, b) == IF IsNaN(a) THEN b ELSE IF IsNaN(b) THEN a ELSE IF flt(b, a) THEN b ELSE a

\* A cast that rounds to the nearest integer instead of truncating.
as_usize_rounding(a) ==
    IF IsNaN(a) \/ a[1] < 0 THEN 0 ELSE (2 * a[1] + a[2]) \div (2 * a[2])

\* `a as usize` of a finite f32: truncates towards zero, NaN and negative
\* values give 0.
as_usize(a) ==
    IF IsNaN(a) \/ a[1] < 0 THEN 0 ELSE a[1] \div a[2]

\* validate also accepts more than six images.
validate_at_least(imgs) == Len(imgs) >= 6

\* CubeSampler::validate
validate(imgs) == Len(imgs) = 6

\* The comparison closure of max_by: partial_cmp, Equal when undefined.
\* Iterator::max_by keeps the earlier element only when it compares Greater.
max_by_step(absdir, a, b) == IF fgt(absdir[a], absdir[b]) THEN a ELSE b

\* (0..3).max_by(..): the axis (1, 2 or 3 here) of the largest component.
max_axis(absdir) == max_by_step(absdir, max_by_step(absdir, 1, 2), 3)

\* The match of sample: <<u, v, index into imgs>> (the index from 0).
face(i, positive, x, y, z) ==
    CASE i = 1 /\ positive -> <<fneg(z), y, 0>>
      [] i = 1 /\ ~positive -> <<z, y, 1>>
      [] i = 2 /\ positive -> <<x, fneg(z), 2>>
      [] i = 2 /\ ~positive -> <<x, z, 3>>
      [] i = 3 /\ positive -> <<x, y, 4>>
      [] i = 3 /\ ~positive -> <<fneg(x), y, 5>>

\* (0.5 * (c / max + 1.0)).max(0.0).min(1.0) * (dim - 1) as f32
texel(c, max, dim) ==
    fmul(fmin(fmax(fmul(Half, fadd(fdiv(c, max), I(1))), I(0)), I(1)), I(dim - 1))

\* The face sample reads for direction v.
face_of(v) ==
    LET absdir == <<fabs(v[1]), fabs(v[2]), fabs(v[3])>>
        i == max_axis(absdir)
    IN  face(i, fgt(v[i], I(0)), v[1], v[2], v[3])

\* CubeSampler::sample: a Color, or a panic when imgs has no such face.
sample(imgs, v) ==
    LET absdir == <<fabs(v[1]), fabs(v[2]), fabs(v[3])>>
        i == max_axis(absdir)
        f == face_of(v)
        max == absdir[i]
    IN  IF f[3] >= Len(imgs)
        THEN Panic
        ELSE LET img == imgs[f[3] + 1]
                 px == as_usize(texel(f[1], max, img.w))
                 py == as_usize(texel(f[2], max, img.h))
             IN  load_px(img, px, py)

Third(k) == fdiv(I(k), I(3))

\* Unit vectors with two components of the same magnitude.
TiedUnits ==
    {<<Third(1), Third(-2), Third(2)>>,
     <<Third(2), Third(2), Third(-1)>>,
     <<Third(-2), Third(1), Third(-2)>>}

SampleDirs == ReflUnits \cup TiedUnits

\* The image sets: n images of the same size each.
ImageSets ==
    {[k \in 1..n |-> Image(k - 1, w, h)] : n \in 0..MaxImgs, w \in 1..MaxDim, h \in 1..MaxDim}

InitSmp ==
    /\ IdleCast
    /\ IdleTrace
    /\ IdleDraw
    /\ IdleXf
    /\ IdleShade
    /\ IdleRefl
    /\ IdleCmp
    /\ smpImgs \in ImageSets
    /\ smpDir \in SampleDirs
    /\ smpValid = Pending
    /\ smpOut = Pending

SmpValidate ==
    /\ smpValid = Pending
    /\ smpValid' = Some(validate(smpImgs))
    /\ UNCHANGED <<smpImgs, smpDir, smpOut>>
    /\ UNCHANGED <<castVars, traceVars, drawVars, xfVars, shadeVars, reflVars, cmpVars>>

SmpSample ==
    /\ smpOut = Pending
    /\ smpOut' = sample(smpImgs, smpDir)
    /\ UNCHANGED <<smpImgs, smpDir, smpValid>>
    /\ UNCHANGED <<castVars, traceVars, drawVars, xfVars, shadeVars, reflVars, cmpVars>>

NextSmp ==
    \/ SmpValidate
    \/ SmpSample

SpecSmp == InitSmp /\ [][NextSmp]_vars

\* The image indices the face rule allows for direction v: an axis whose
\* component has the largest absolute value, +X, -X, +Y, -Y, +Z, -Z = 0..5.
FacesByRule(v) ==
    {2 * (i - 1) + (IF fgt(v[i], I(0)) THEN 0 ELSE 1) :
        i \in {a \in 1..3 : \A b \in 1..3 : fge(fabs(v[a]), fabs(v[b]))}}

\* C12: with six images, sample reads the image of the axis with the largest
\* absolute component and of its sign, and for direction (0, 0, 1) it reads
\* the pixel (floor((width-1)/2), floor((height-1)/2)) of image 4.
C12_FaceSelection ==
    (smpOut # Pending /\ Len(smpImgs) = 6) =>
        /\ smpOut.tag = "Color"
        /\ smpOut.val[1] \in FacesByRule(smpDir)
        /\ smpDir = Vec(0, 0, 1) =>
              LET img == smpImgs[5]
              IN  smpOut.val = <<4, ((img.w - 1) \div 2) + img.w * ((img.h - 1) \div 2)>>

\* Direction (0, 0, 1) was sampled from six images whose center is not the
\* pixel (0, 0).
C12_Witness ==
    /\ Len(smpImgs) = 6
    /\ smpDir = Vec(0, 0, 1)
    /\ smpImgs[5].w = 2
    /\ smpImgs[5].h = 3
    /\ smpOut = Color(<<4, 2>>)

\* C13 as claimed: validate returns true exactly for six images, and sample
\* never returns a color for an image set whose count is not six.
C13_SampleRejectsWrongCount ==
    /\ smpValid # Pending => smpValid = Some(Len(smpImgs) = 6)
    /\ (smpOut # Pending /\ Len(smpImgs) # 6) => smpOut.tag # "Color"

\* C13: validate returns true exactly for six images; sample does not look
\* at the count: it returns a color exactly when the slice holds the image
\* of the face it selects, and so always with six images.
C13_OnlyValidateChecksCount ==
    /\ smpValid # Pending => smpValid = Some(Len(smpImgs) = 6)
    /\ smpOut # Pending =>
          /\ smpOut.tag = "Color" <=> face_of(smpDir)[3] < Len(smpImgs)
          /\ Len(smpImgs) = 6 => smpOut.tag = "Color"

\* validate has rejected a set of seven images and sample has returned a
\* color from it all the same.
C13_Witness ==
    /\ Len(smpImgs) = 7
    /\ smpValid = Some(FALSE)
    /\ smpOut # Pending
    /\ smpOut.tag = "Color"

(***************************************************************************)
(* Composition of Transforms (geom.rs)                                     *)
(***************************************************************************)
\* Transforms made with the builder calls of Transform.
CmpTransforms ==
    {eye,
     translate(eye, Vec(1, 0, 0)),
     scale(eye, Vec(1, 2, 1)),
     rotate(eye, 1, Vec(0, 0, 1)),
     translate(rotate(eye, 4, Vec(1, 0, 0)), Vec(0, 2, -1)),
     scale(translate(eye, Vec(0, 2, -1)), <<Half, Half, Half>>)}

\* The operands a Transform is applied to.
CmpOperands ==
    {[kind |-> k, val |-> v] :
        k \in {"Point", "Vector"}, v \in {Vec(0, 0, 0), Vec(1, 2, 0), Vec(-1, 0, 2)}}

\* Transform * Point or Transform * Vector, by the type of the operand.
apply(t, arg) ==
    [kind |-> arg.kind,
     val |-> IF arg.kind = "Point" THEN mul_point(t, arg.val) ELSE mul_vector(t, arg.val)]

InitCmp ==
    /\ IdleCast
    /\ IdleTrace
    /\ IdleDraw
    /\ IdleXf
    /\ IdleShade
    /\ IdleRefl
    /\ IdleSmp
    /\ cmpA \in CmpTransforms
    /\ cmpB \in CmpTransforms
    /\ cmpArg \in CmpOperands
    /\ cmpOut = Pending

\* Evaluates (A * B) * x and A * (B * x).
CmpApply ==
    /\ cmpOut = Pending
    /\ cmpOut' = [product |-> apply(mul_transform(cmpA, cmpB), cmpArg),
                  nested |-> apply(cmpA, apply(cmpB, cmpArg))]
    /\ UNCHANGED <<cmpA, cmpB, cmpArg>>
    /\ UNCHANGED <<castVars, traceVars, drawVars, xfVars, shadeVars, reflVars, smpVars>>

NextCmp == CmpApply

SpecCmp == InitCmp /\ [][NextCmp]_vars

\* C14: A * B applies B first, then A: (A * B) * p = A * (B * p) for every
\* Point p, and (A * B) * v = A * (B * v) for every Vector v, to which no
\* translation is applied.
C14_CompositionAppliesRightFirst ==
    cmpOut # Pending =>
        /\ cmpOut.product = cmpOut.nested
        /\ cmpArg.kind = "Vector" =>
              cmpOut.product.val =
                  mul_vector([mul_transform(cmpA, cmpB) EXCEPT !.af = Vec(1, 1, 1)], cmpArg.val)

\* A product of a rotation with a translation and a scale with a
\* translation was applied to a point, and the order of the factors matters.
C14_Witness ==
    /\ cmpOut # Pending
    /\ cmpArg.kind = "Point"
    /\ cmpA.af # Vec(0, 0, 0)
    /\ cmpB.af # Vec(0, 0, 0)
    /\ cmpOut.product # apply(cmpB, apply(cmpA, cmpArg))

(***************************************************************************)
(* Further properties of trace                                             *)
(***************************************************************************)
\* The accepted hit i has the smallest t of the accepted hits so far and is
\* the first of them with that t.
EarliestNearest(i) ==
    /\ i \in Accepted
    /\ flt(calls[i].x.t, INFINITY)
    /\ \A j \in Accepted :
          /\ ~flt(calls[j].x.t, calls[i].x.t)
          /\ j < i => calls[j].x.t # calls[i].x.t

HitOfCall(i) == [tri |-> calls[i].tri, mat |-> calls[i].mat, x |-> calls[i].x]

\* C15: among accepted hits with the same smallest t the candidate is the
\* one met first in iteration order, a later hit replacing the candidate
\* only when its t is strictly smaller; closest_hit receives that one.
C15_TiesKeepFirst ==
    /\ closest.tag = "Some" =>
          \E i \in Accepted : EarliestNearest(i) /\ closest.val = HitOfCall(i)
    /\ (pc = "done" /\ Final.fn = "closest_hit") =>
          \E i \in Accepted :
              /\ EarliestNearest(i)
              /\ HitOfCall(i) = [tri |-> Final.tri, mat |-> Final.mat, x |-> Final.x]

\* Two triangles of different objects were accepted with the same smallest
\* t, and closest_hit received the first of them.
C15_Witness ==
    /\ pc = "done"
    /\ Final.fn = "closest_hit"
    /\ \E i, j \in Accepted :
          /\ i < j
          /\ EarliestNearest(i)
          /\ calls[j].x.t = calls[i].x.t
          /\ calls[j].tri # calls[i].tri
          /\ calls[j].mat # calls[i].mat
          /\ Final.tri = calls[i].tri
          /\ Final.mat = calls[i].mat

\* The positions <<object, index triple>> of a scene whose objects from o on
\* are sc, in scene order and then in index order.
RECURSIVE ScanOrder(_, _)
ScanOrder(sc, o) ==
    IF sc = <<>> THEN <<>>
    ELSE [t \in 1..Len(Head(sc).idxs) |-> <<o, t>>] \o ScanOrder(Tail(sc), o + 1)

\* The entries of the log q that are calls of fn, in order.
RECURSIVE OnlyCalls(_, _)
OnlyCalls(q, fn) ==
    IF q = <<>> THEN <<>>
    ELSE IF Head(q).fn = fn THEN <<Head(q)>> \o OnlyCalls(Tail(q), fn)
    ELSE OnlyCalls(Tail(q), fn)

\* C16: a finished trace has called intersect exactly once for every
\* triangle, in scene order and then index order, any_hit exactly once for
\* each triangle whose intersect returned a hit (right after it, with that
\* hit) and for no other, everything before the single closest_hit or miss
\* call, which sees the payload as the any_hit calls left it.
C16_ExhaustiveScan ==
    pc = "done" =>
        LET ints == OnlyCalls(calls, "intersect")
            hits == OnlyCalls(calls, "any_hit")
        IN  /\ [k \in DOMAIN ints |-> ints[k].at] = ScanOrder(scene, 1)
            /\ \A i \in CallsOf({"intersect"}) :
                  calls[i].out.tag = "Some" <=> calls[i + 1].fn = "any_hit"
            /\ \A i \in CallsOf({"any_hit"}) :
                  /\ calls[i - 1].fn = "intersect"
                  /\ calls[i - 1].at = calls[i].at
                  /\ calls[i - 1].out = Some(calls[i].x)
                  /\ calls[i].tri = TriAt(calls[i].at[1], calls[i].at[2])
            /\ CallsOf({"closest_hit", "miss"}) = {Len(calls)}
            /\ \A k \in DOMAIN hits : hits[k].payload = k - 1
            /\ Final.payload = Len(hits)

\* A scan of three triangles in two objects has finished: it went on after
\* an accepted hit, one triangle was not hit, and the final callback saw the
\* payload of two any_hit calls.
C16_Witness ==
    /\ pc = "done"
    /\ Len(scene) = 2
    /\ Len(OnlyCalls(calls, "intersect")) = 3
    /\ Len(OnlyCalls(calls, "any_hit")) = 2
    /\ Final.payload = 2
    /\ calls[1].fn = "intersect"
    /\ calls[2].fn = "any_hit"
    /\ calls[2].out

(***************************************************************************)
(* Further properties of draw                                              *)
(***************************************************************************)
\* C17 as claimed: a worker holds the lock of the frame buffer only for the
\* store of its pixel and never while its ray_gen call runs.
C17_LockCoversOnlyStore ==
    \A w \in Workers :
        /\ wpc[w] = "ray_gen" => mutex # w
        /\ mutex = w => wpc[w] \in {"in_store", "unlock"}

(***************************************************************************)
(* Zero-area triangles                                                     *)
(***************************************************************************)
\* C18 as claimed: for a triangle of zero area ray_cast_tri returns None,
\* whatever the ray.
C18_ZeroAreaIsNoIntersection ==
    (castOut # Pending /\ CrossNorm2(castPts) = 0) => castOut = None

====
